---- MODULE Spec2Model ----
(***************************************************************************)
(* Condor / Propagator: the light source (Source, Photon), and the         *)
(* orchestration objects (Input, Output), as state machines.               *)
(*                                                                         *)
(* Python values are modelled as follows.  An attribute that may be absent *)
(* (never assigned), a keyword that may be missing from **kwargs and the   *)
(* value None are the empty tuple <<>>; a present value v is <<v>>.        *)
(* Floats are integers in scaled units and "/" is integer division.        *)
(***************************************************************************)
EXTENDS Integers, Sequences, FiniteSets, TLC

\* ------------------------------------------------------------------ bounds
\* pulse energies passed to the constructor range over -1..MaxEnergy
MaxEnergy == 2
\* recursion depth of _next_pulse_energy that is counted exactly
MaxDepth == 3

\* ------------------------------------------------------- python helpers
None == <<>>
Some(v) == <<v>>
Opt(S) == {None} \cup {Some(v) : v \in S}
Val(o) == o[1]
Inc(n) == IF n < MaxDepth THEN n + 1 ELSE n

\* scipy.constants.c * scipy.constants.h, in scaled integer units
CH == 12
\* scipy.constants.e, in scaled integer units
ECharge == 2

\* ------------------------------------------------------------ input sets
Wavelengths == {0, 1, 2, 5}
Diameters == {2}
Energies == (0 - 1) .. MaxEnergy
Modes == {"range", "normal", "uniform"}
Spreads == {0, 2}
Counts == {2, 3}
ProfileNames == {"top_hat", "pseudo_lorentzian", "gaussian", "lorentz"}
Units == {"J/m2", "ph/m2", "J/um2", "mJ/um2", "ph/um2"}
Coords == {0, 1}

AllKeys == {"wavelength", "focus_diameter", "pulse_energy", "pulse_energy_mean",
            "pulse_energy_variation", "pulse_energy_spread",
            "pulse_energy_variation_n", "profile_model", "parent"}

\* the keywords a call supplies
Keys(kw) == {k \in AllKeys : kw[k] # None}

\* Sampler configurations the Variation object is documented for: range
\* needs a spread and a count, a random mode a spread, no mode neither.
Coherent(kw) ==
    /\ kw.pulse_energy_variation = None =>
          kw.pulse_energy_spread = None /\ kw.pulse_energy_variation_n = None
    /\ kw.pulse_energy_variation = Some("range") =>
          kw.pulse_energy_spread # None /\ kw.pulse_energy_variation_n # None
    /\ kw.pulse_energy_variation \in {Some("normal"), Some("uniform")} =>
          kw.pulse_energy_spread # None /\ kw.pulse_energy_variation_n = None

KwArgs ==
    {kw \in [wavelength : Opt(Wavelengths),
             focus_diameter : Opt(Diameters),
             pulse_energy : Opt(Energies),
             pulse_energy_mean : Opt(Energies),
             pulse_energy_variation : Opt(Modes),
             pulse_energy_spread : Opt(Spreads),
             pulse_energy_variation_n : Opt(Counts),
             profile_model : Opt(ProfileNames),
             parent : Opt({0})] : Coherent(kw)}

NoKwArgs == [k \in AllKeys |-> None]

\* ----------------------------------------------------------------- state
VARIABLES
    src_state,   \* "none" | "ok" | "exit" (exit(1)) | "raised" (exception)
    kwargs,      \* the keywords Source.__init__ was called with
    source,      \* the Source object's attributes
    pc,          \* "idle" | "retry": inside the recursion of _next_pulse_energy
    nretry,      \* recursive calls of _next_pulse_energy in the current get_next
    nwarn,       \* warnings logged by the current get_next
    nerr,        \* errors logged by the last operation
    lastp,       \* the sampler's last value, None before the first
    last,        \* the last operation and what it returned
    ph_state,    \* stand-alone Photon: "none" | "ok" | "raised"
    ph_kwargs,   \* the keywords Photon.__init__ was called with
    photon,      \* the stand-alone Photon's attributes
    ph_last,     \* the Photon's last operation and what it returned
    input,       \* the Input object
    output,      \* the Output object
    amplitudes0, \* what sample.propagate() returned to Output.__init__
    out_last     \* the Output's last accessor and what it returned

src_vars == <<src_state, kwargs, source, pc, nretry, nwarn, nerr, lastp, last>>
ph_vars == <<ph_state, ph_kwargs, photon, ph_last>>
prop_vars == <<input, output, amplitudes0, out_last>>
vars == <<src_vars, ph_vars, prop_vars>>

\* utils.log.log(logmethod, message): hands the message to the logging
\* method and returns to its caller; n messages logged count as n
log(n) == n

\* ================================================================ Photon
\* Photon.set_wavelength: self._energy = c*h/wavelength
Photon_set_wavelength(p, wavelength) == [p EXCEPT !._energy = Some(CH \div wavelength)]

\* Photon.set_energy: J is stored as is, eV is scaled by e, another unit
\* logs an error and stores nothing
Photon_set_energy(p, energy, unit) ==
    IF unit = "J" THEN [p EXCEPT !._energy = Some(energy)]
    ELSE IF unit = "eV" THEN [p EXCEPT !._energy = Some(energy * ECharge)]
    ELSE p

\* Photon.get_wavelength: c*h/self._energy
Photon_get_wavelength(p) == CH \div Val(p._energy)

NoPhoton == [_energy |-> None]

\* Photon.__init__: the first of wavelength, energy, energy_eV that is
\* supplied sets the energy; with none of them an error is logged and the
\* constructor returns
Photon_init(kw) ==
    IF kw.wavelength # None THEN Photon_set_wavelength(NoPhoton, Val(kw.wavelength))
    ELSE IF kw.energy # None THEN Photon_set_energy(NoPhoton, Val(kw.energy), "J")
    ELSE IF kw.energy_eV # None THEN Photon_set_energy(NoPhoton, Val(kw.energy_eV), "eV")
    ELSE NoPhoton

\* set_wavelength(0) divides by zero
Photon_init_raises(kw) == kw.wavelength = Some(0)

\* Photon.get_energy: J as stored, eV divided by e; another unit logs an
\* error and returns None
Photon_get_energy(p, unit) ==
    IF unit = "J" THEN p._energy
    ELSE IF unit = "eV" THEN Some(Val(p._energy) \div ECharge)
    ELSE None

\* ================================================================ Source
\* the required list without the deprecated spelling of the mean
req_keys_nomean == {"wavelength", "focus_diameter"}

\* Source.__init__, the keyword lists
req_keys == {"wavelength", "focus_diameter", "pulse_energy"}
opt_keys == {"pulse_energy_variation", "pulse_energy_spread",
             "pulse_energy_variation_n", "profile_model"}

\* condortools.check_input: the required keywords that are missing and the
\* supplied keywords that are neither required nor optional
check_input(keys, req, opt) == [miss |-> req \ keys, ill |-> keys \ (req \cup opt)]

NoSource == [photon |-> None, focus_diameter |-> None, pulse_energy_mean |-> None,
             _pulse_energy_variation |-> None, _profile_model |-> None,
             pulse_energy |-> None]

\* Variation(variation, spread, n, ...): the sampler, its sweep at the start
Variation_init(variation, spread, n) ==
    [mode |-> variation, spread |-> spread, n |-> n, i |-> 0]

\* Source.set_pulse_energy_variation
Source_set_pulse_energy_variation(s, variation, spread, n) ==
    [s EXCEPT !._pulse_energy_variation = Some(Variation_init(variation, spread, n))]

\* Source.set_profile, the models it accepts
ValidProfiles == {None, Some("top_hat"), Some("pseudo_lorentzian"), Some("gaussian")}

\* Source.set_profile: an accepted model is stored (None among them); any
\* other logs an error and exits
Source_set_profile(s, profile_model) ==
    IF profile_model \in ValidProfiles
    THEN [s EXCEPT !._profile_model = Some(profile_model)]
    ELSE s

\* Source.__init__, the mean pulse energy: the deprecated keyword
\* pulse_energy when supplied, else kwargs["pulse_energy_mean"] (None here
\* stands for the KeyError of a missing key)
Source_mean_keyword(kw) ==
    IF kw.pulse_energy # None THEN kw.pulse_energy ELSE kw.pulse_energy_mean

\* Source.__init__: [state, obj, nerr]
Source_init(kw) ==
    LET chk == check_input(Keys(kw), req_keys, opt_keys)
        pk == [wavelength |-> kw.wavelength, energy |-> None, energy_eV |-> None]
        s1 == [NoSource EXCEPT !.photon = Some(Photon_init(pk))]
        s2 == [s1 EXCEPT !.focus_diameter = kw.focus_diameter]
        m  == Source_mean_keyword(kw)
        s3 == [s2 EXCEPT !.pulse_energy_mean = m]
        s4 == Source_set_pulse_energy_variation(s3, kw.pulse_energy_variation,
                  kw.pulse_energy_spread, kw.pulse_energy_variation_n)
        s5 == Source_set_profile(s4, kw.profile_model)
    IN  IF chk.miss # {}
        THEN [state |-> "exit", obj |-> NoSource, nerr |-> log(Cardinality(chk.miss))]
        ELSE IF chk.ill # {}
        THEN [state |-> "exit", obj |-> NoSource, nerr |-> log(Cardinality(chk.ill))]
        ELSE IF kw.wavelength = None \/ Photon_init_raises(pk)
        THEN [state |-> "raised", obj |-> NoSource, nerr |-> 0]
        ELSE IF kw.focus_diameter = None
        THEN [state |-> "raised", obj |-> s1, nerr |-> 0]
        ELSE IF m = None
        THEN [state |-> "raised", obj |-> s2, nerr |-> 0]
        ELSE IF kw.profile_model \notin ValidProfiles
        THEN [state |-> "exit", obj |-> s4, nerr |-> log(1)]
        ELSE [state |-> "ok", obj |-> s5, nerr |-> 0]

\* ----------------------------------------------------- the sampler
\* Variation.get(v0): no mode returns v0; range returns the i-th of n evenly
\* spaced values from v0 - spread to v0 + spread; a random mode a draw
Variation_get(v, v0, draw) ==
    IF v.mode = None THEN v0
    ELSE IF v.mode = Some("range")
    THEN v0 - Val(v.spread) + (2 * Val(v.spread) * v.i) \div (Val(v.n) - 1)
    ELSE draw

\* Variation.get, the sweep index: advances on each call and wraps
Variation_advance(v) ==
    IF v.mode = Some("range") THEN [v EXCEPT !.i = (v.i + 1) % Val(v.n)] ELSE v

\* the values a draw of a random mode can take: uniform within the spread,
\* normal with tails beyond it; a zero spread always gives v0
Variation_draws(v, v0) ==
    IF v.mode = Some("uniform") THEN (v0 - Val(v.spread)) .. (v0 + Val(v.spread))
    ELSE IF v.mode = Some("normal")
    THEN IF Val(v.spread) = 0 THEN {v0}
         ELSE (v0 - Val(v.spread) - 1) .. (v0 + Val(v.spread) + 1)
    ELSE {0}

\* Source._next_pulse_energy, the modes that are not random
NonRandomModes == {None, Some("range")}

\* the non-random branch with its test turned round
NonRandomBranch_flipped(s, p) ==
    IF p >= 0
    THEN [obj |-> s, err |-> log(1), warn |-> 0, again |-> FALSE]
    ELSE [obj |-> [s EXCEPT !.pulse_energy = Some(p)], err |-> 0, warn |-> 0, again |-> FALSE]

\* Source._next_pulse_energy, non-random: p <= 0 logs an error and writes
\* nothing, else p is stored
NonRandomBranch(s, p) ==
    IF p <= 0
    THEN [obj |-> s, err |-> log(1), warn |-> 0, again |-> FALSE]
    ELSE [obj |-> [s EXCEPT !.pulse_energy = Some(p)], err |-> 0, warn |-> 0, again |-> FALSE]

\* the random branch retrying only below zero
RandomBranch_strict(s, p) ==
    IF p < 0
    THEN [obj |-> s, err |-> 0, warn |-> log(1), again |-> TRUE]
    ELSE [obj |-> [s EXCEPT !.pulse_energy = Some(p)], err |-> 0, warn |-> 0, again |-> FALSE]

\* Source._next_pulse_energy, random: p <= 0 logs a warning and calls
\* _next_pulse_energy again, else p is stored
RandomBranch(s, p) ==
    IF p <= 0
    THEN [obj |-> s, err |-> 0, warn |-> log(1), again |-> TRUE]
    ELSE [obj |-> [s EXCEPT !.pulse_energy = Some(p)], err |-> 0, warn |-> 0, again |-> FALSE]

\* the argument _next_pulse_energy samples around
SampleMean(s) == Val(s.pulse_energy_mean)

\* Source._next_pulse_energy, one invocation: [p, obj, err, warn, again]
Source__next_pulse_energy(s, draw) ==
    LET v  == Val(s._pulse_energy_variation)
        p  == Variation_get(v, SampleMean(s), draw)
        s1 == [s EXCEPT !._pulse_energy_variation = Some(Variation_advance(v))]
        b  == IF v.mode \in NonRandomModes THEN NonRandomBranch(s1, p)
              ELSE RandomBranch(s1, p)
    IN  [p |-> p, obj |-> b.obj, err |-> b.err, warn |-> b.warn, again |-> b.again]

\* Source.get_next, the dictionary returned; reading self.pulse_energy
\* before any shot stored it raises AttributeError
Source_get_next_return(s) ==
    IF s.pulse_energy = None
    THEN [op |-> "get_next", kind |-> "AttributeError", val |-> <<>>]
    ELSE [op |-> "get_next", kind |-> "value",
          val |-> <<Val(s.pulse_energy), Photon_get_wavelength(Val(s.photon))>>]

\* Source.get_profile: the density at squared radius r2 (r < d/2 is
\* 4 r^2 < d^2); the two smooth profiles are condortools functions
Source_get_profile(s, r2) ==
    LET pm == Val(s._profile_model)
        d  == Val(s.focus_diameter)
    IN  IF pm = None THEN "flat"
        ELSE IF pm = Some("top_hat") THEN (IF 4 * r2 < d * d THEN "flat" ELSE "zero")
        ELSE Val(pm)

\* get_intensity scaling the stored pulse energy itself
Source_get_intensity_inplace(s, y, z, unit) ==
    LET r2 == y * y + z * z
        s1 == IF s.pulse_energy = None THEN s
              ELSE [s EXCEPT !.pulse_energy = Some(Val(s.pulse_energy) * 2)]
    IN  IF s.pulse_energy = None
        THEN [ret |-> [op |-> "get_intensity", kind |-> "AttributeError", val |-> <<>>],
              err |-> 0, obj |-> s]
        ELSE [ret |-> [op |-> "get_intensity", kind |-> "value",
                       val |-> <<Source_get_profile(s, r2), Val(s1.pulse_energy), unit, 1>>],
              err |-> 0, obj |-> s1]

ValidUnits == {"J/m2", "ph/m2", "J/um2", "mJ/um2"}

\* Source.get_intensity: density(r) * pulse_energy in the unit asked for;
\* ph/m2 divides by the photon energy; another unit logs an error and
\* returns None: [ret, err, obj]
Source_get_intensity(s, y, z, unit) ==
    LET r2 == y * y + z * z
        div == IF unit = "ph/m2" THEN Val(Photon_get_energy(Val(s.photon), "J")) ELSE 1
    IN  IF s.pulse_energy = None
        THEN [ret |-> [op |-> "get_intensity", kind |-> "AttributeError", val |-> <<>>],
              err |-> 0, obj |-> s]
        ELSE IF unit \notin ValidUnits
        THEN [ret |-> [op |-> "get_intensity", kind |-> "None", val |-> <<>>],
              err |-> log(1), obj |-> s]
        ELSE [ret |-> [op |-> "get_intensity", kind |-> "value",
                       val |-> <<Source_get_profile(s, r2), Val(s.pulse_energy), unit, div>>],
              err |-> 0, obj |-> s]

\* ------------------------------------------------------- Source actions
SourceInit ==
    /\ src_state = "none"
    /\ \E kw \in KwArgs :
          LET r == Source_init(kw)
          IN  /\ src_state' = r.state
              /\ kwargs' = kw
              /\ source' = r.obj
              /\ nerr' = r.nerr
              /\ last' = [op |-> "init", kind |-> r.state, val |-> <<>>]
    /\ UNCHANGED <<pc, nretry, nwarn, lastp, ph_vars, prop_vars>>

\* Source.get_next up to its return, or up to the first recursive call
GetNext ==
    /\ src_state = "ok" /\ pc = "idle"
    /\ \E draw \in Variation_draws(Val(source._pulse_energy_variation), SampleMean(source)) :
          LET r == Source__next_pulse_energy(source, draw)
          IN  /\ source' = r.obj
              /\ lastp' = Some(r.p)
              /\ nerr' = r.err
              /\ nwarn' = r.warn
              /\ nretry' = IF r.again THEN 1 ELSE 0
              /\ pc' = IF r.again THEN "retry" ELSE "idle"
              /\ last' = IF r.again
                         THEN [op |-> "get_next", kind |-> "pending", val |-> <<>>]
                         ELSE Source_get_next_return(r.obj)
    /\ UNCHANGED <<src_state, kwargs, ph_vars, prop_vars>>

\* one recursive call of _next_pulse_energy, and get_next's return after the
\* last one
Retry ==
    /\ src_state = "ok" /\ pc = "retry"
    /\ \E draw \in Variation_draws(Val(source._pulse_energy_variation), SampleMean(source)) :
          LET r == Source__next_pulse_energy(source, draw)
          IN  /\ source' = r.obj
              /\ lastp' = Some(r.p)
              /\ nerr' = r.err
              /\ nwarn' = IF r.warn = 1 THEN Inc(nwarn) ELSE nwarn
              /\ nretry' = IF r.again THEN Inc(nretry) ELSE nretry
              /\ pc' = IF r.again THEN "retry" ELSE "idle"
              /\ last' = IF r.again
                         THEN [op |-> "get_next", kind |-> "pending", val |-> <<>>]
                         ELSE Source_get_next_return(r.obj)
    /\ UNCHANGED <<src_state, kwargs, ph_vars, prop_vars>>

GetIntensity ==
    /\ src_state = "ok" /\ pc = "idle"
    /\ \E y \in Coords, z \in Coords, unit \in Units :
          LET r == Source_get_intensity(source, y, z, unit)
          IN  /\ source' = r.obj
              /\ nerr' = r.err
              /\ last' = r.ret
    /\ UNCHANGED <<src_state, kwargs, pc, nretry, nwarn, lastp, ph_vars, prop_vars>>

\* ======================================================= Photon actions
PhotonKeys == {"wavelength", "energy", "energy_eV"}
PhotonKwArgs == [wavelength : Opt({0, 1, 2}), energy : Opt({1, 3}), energy_eV : Opt({1, 2})]
PhotonUnits == {"J", "eV", "keV"}

PhotonInit ==
    /\ ph_state = "none"
    /\ \E kw \in PhotonKwArgs :
          /\ ph_kwargs' = kw
          /\ ph_state' = IF Photon_init_raises(kw) THEN "raised" ELSE "ok"
          /\ photon' = IF Photon_init_raises(kw) THEN NoPhoton ELSE Photon_init(kw)
          /\ ph_last' = [op |-> "init", kind |-> "none", ret |-> None]
    /\ UNCHANGED <<src_vars, prop_vars>>

PhotonGetEnergy ==
    /\ ph_state = "ok"
    /\ \E unit \in PhotonUnits :
          ph_last' = IF unit \in {"J", "eV"} /\ photon._energy = None
                     THEN [op |-> "get_energy", kind |-> "AttributeError", ret |-> None]
                     ELSE [op |-> "get_energy", kind |-> "value",
                           ret |-> Photon_get_energy(photon, unit)]
    /\ UNCHANGED <<ph_state, ph_kwargs, photon, src_vars, prop_vars>>

PhotonSetEnergy ==
    /\ ph_state = "ok"
    /\ \E energy \in {0, 1, 3}, unit \in PhotonUnits :
          /\ photon' = Photon_set_energy(photon, energy, unit)
          /\ ph_last' = [op |-> "set_energy", kind |-> "value", ret |-> None]
    /\ UNCHANGED <<ph_state, ph_kwargs, src_vars, prop_vars>>

PhotonGetWavelength ==
    /\ ph_state = "ok"
    /\ ph_last' = IF photon._energy = None
                  THEN [op |-> "get_wavelength", kind |-> "AttributeError", ret |-> None]
                  ELSE IF photon._energy = Some(0)
                  THEN [op |-> "get_wavelength", kind |-> "ZeroDivisionError", ret |-> None]
                  ELSE [op |-> "get_wavelength", kind |-> "value",
                        ret |-> Some(Photon_get_wavelength(photon))]
    /\ UNCHANGED <<ph_state, ph_kwargs, photon, src_vars, prop_vars>>

PhotonSetWavelength ==
    /\ ph_state = "ok"
    /\ \E wavelength \in {0, 1, 2} :
          IF wavelength = 0
          THEN /\ photon' = photon
               /\ ph_last' = [op |-> "set_wavelength", kind |-> "ZeroDivisionError", ret |-> None]
          ELSE /\ photon' = Photon_set_wavelength(photon, wavelength)
               /\ ph_last' = [op |-> "set_wavelength", kind |-> "value", ret |-> None]
    /\ UNCHANGED <<ph_state, ph_kwargs, src_vars, prop_vars>>

\* ========================================================= Input, Output
SampleTypes == {"uniform_sphere", "uniform_spheroid", "map3d", "sphere"}
Radii == {1}

\* Input._reconfigure, the sample variant built for a sample_type; None
\* when the type is none of the three (an error is logged and the method
\* returns, self.sample never assigned)
Input_sample_variant(sample_type) ==
    IF sample_type = "uniform_sphere" THEN Some("SampleSphere")
    ELSE IF sample_type = "uniform_spheroid" THEN Some("SampleSpheroid")
    ELSE IF sample_type = "map3d" THEN Some("SampleMap")
    ELSE None

\* the sample's radius attribute: a map has none
Sample_radius(variant, radius) == IF variant = "SampleMap" THEN None ELSE Some(radius)

NoInput == [state |-> "none", sample_type |-> "", detector |-> None, source |-> None,
            sample |-> None, radius |-> None, flags |-> None]

\* Input.__init__: _reconfigure, then the two changed flags
Input_init(sample_type, radius) ==
    LET variant == Input_sample_variant(sample_type)
    IN  [state |-> "ok", sample_type |-> sample_type,
         detector |-> Some("Detector"), source |-> Some("Source"),
         sample |-> variant,
         radius |-> IF variant = None THEN None ELSE Sample_radius(Val(variant), radius),
         flags |-> Some(<<FALSE, FALSE>>)]

\* one amplitude value: finite (an even number, so that halving is exact),
\* NaN or infinite
Fin(v) == <<"fin", v>>
NaN == <<"nan", 0>>
Inf == <<"inf", 0>>
AmpValues == {Fin(0), Fin(2), NaN, Inf}
Images == [1 .. 2 -> AmpValues]
AmplitudeArrays == [1 .. 1 -> Images] \cup [1 .. 2 -> Images]

\* sample.propagate(): the bundle of results
PropagateResults ==
    [amplitudes : AmplitudeArrays, euler_angle_0 : Opt({0}), sample_diameter : Opt({2})]

NoOutput == [state |-> "none", input_object |-> None, amplitudes |-> None,
             sample_euler_angle_0 |-> None, sample_diameter |-> None]

\* Output.__init__ with an Input that has a sample
Output_init(outdict) ==
    [state |-> "ok", input_object |-> Some("input"),
     amplitudes |-> Some(outdict.amplitudes),
     sample_euler_angle_0 |-> outdict.euler_angle_0,
     sample_diameter |-> outdict.sample_diameter]

\* numpy: abs(x)**2 of one value
AbsSquared(x) == IF x[1] = "fin" THEN Fin(x[2] * x[2]) ELSE x

\* detector.detect_photons: scales the intensity by the binned pixel's area
PixelArea == 3
detect_photons(I) == [k \in DOMAIN I |-> IF I[k][1] = "fin" THEN Fin(I[k][2] * PixelArea) ELSE I[k]]

\* Output.get_intensity_pattern
Output_get_intensity_pattern(o, i) ==
    LET A == Val(o.amplitudes)[i + 1]
    IN  detect_photons([k \in DOMAIN A |-> AbsSquared(A[k])])

\* A[numpy.isfinite(A)==False] = 0.
Sanitize(A) == [k \in DOMAIN A |-> IF A[k][1] = "fin" THEN A[k] ELSE Fin(0)]

\* get_real_space_image, lines 95-96: A is self.amplitudes[i] itself, so the
\* assignment through A writes the stored array
Output_sanitize_in_place(o, i) ==
    [o EXCEPT !.amplitudes = Some([Val(o.amplitudes) EXCEPT ![i + 1] = Sanitize(@)])]

\* numpy.fft.fftshift of two values: the halves are swapped
fftshift(A) == <<A[2], A[1]>>
\* numpy.fft.ifftn of two finite values
ifftn(A) == <<Fin((A[1][2] + A[2][2]) \div 2), Fin((A[1][2] - A[2][2]) \div 2)>>

\* Output.get_real_space_image: [obj, ret]
Output_get_real_space_image(o, i) ==
    LET o1 == Output_sanitize_in_place(o, i)
    IN  [obj |-> o1, ret |-> fftshift(ifftn(fftshift(Val(o1.amplitudes)[i + 1])))]

\* Output.get_linear_sampling_ratio: None without a radius, else pN/pD of
\* the detector distance, the wavelength, the sample's area and the pixel
Output_get_linear_sampling_ratio(inp) ==
    IF inp.radius = None THEN None ELSE Some(<<"pN/pD", Val(inp.radius)>>)

InputInit ==
    /\ input.state = "none"
    /\ \E sample_type \in SampleTypes, radius \in Radii :
          input' = Input_init(sample_type, radius)
    /\ UNCHANGED <<output, amplitudes0, out_last, src_vars, ph_vars>>

\* Output(input) with the Input built before
OutputInit ==
    /\ input.state = "ok" /\ output.state = "none"
    /\ IF input.sample = None
       THEN /\ output' = [NoOutput EXCEPT !.state = "raised", !.input_object = Some("input")]
            /\ amplitudes0' = amplitudes0
            /\ out_last' = [op |-> "init", kind |-> "AttributeError", i |-> 0, ret |-> None]
       ELSE \E outdict \in PropagateResults :
               /\ output' = Output_init(outdict)
               /\ amplitudes0' = outdict.amplitudes
               /\ out_last' = [op |-> "init", kind |-> "value", i |-> 0, ret |-> None]
    /\ UNCHANGED <<input, src_vars, ph_vars>>

\* Output(x) with x no Input: an error is logged and the constructor returns
OutputInitIllegal ==
    /\ output.state = "none"
    /\ output' = [NoOutput EXCEPT !.state = "ok"]
    /\ out_last' = [op |-> "init", kind |-> "error", i |-> 0, ret |-> None]
    /\ UNCHANGED <<input, amplitudes0, src_vars, ph_vars>>

Indices == {0, 1}

\* why an accessor that reads amplitudes[i] cannot: "" when it can
AccessError(o, i) ==
    IF o.amplitudes = None THEN "AttributeError"
    ELSE IF i + 1 > Len(Val(o.amplitudes)) THEN "IndexError"
    ELSE ""

GetIntensityPattern ==
    /\ output.state = "ok"
    /\ \E i \in Indices :
          out_last' = IF AccessError(output, i) # ""
                      THEN [op |-> "get_intensity_pattern", kind |-> AccessError(output, i),
                            i |-> i, ret |-> None]
                      ELSE [op |-> "get_intensity_pattern", kind |-> "value", i |-> i,
                            ret |-> Some(Output_get_intensity_pattern(output, i))]
    /\ UNCHANGED <<input, output, amplitudes0, src_vars, ph_vars>>

GetRealSpaceImage ==
    /\ output.state = "ok"
    /\ \E i \in Indices :
          IF AccessError(output, i) # ""
          THEN /\ output' = output
               /\ out_last' = [op |-> "get_real_space_image", kind |-> AccessError(output, i),
                               i |-> i, ret |-> None]
          ELSE LET r == Output_get_real_space_image(output, i)
               IN  /\ output' = r.obj
                   /\ out_last' = [op |-> "get_real_space_image", kind |-> "value", i |-> i,
                                   ret |-> Some(r.ret)]
    /\ UNCHANGED <<input, amplitudes0, src_vars, ph_vars>>

GetLinearSamplingRatio ==
    /\ output.state = "ok"
    /\ out_last' = IF output.input_object = None
                   THEN [op |-> "get_linear_sampling_ratio", kind |-> "AttributeError",
                         i |-> 0, ret |-> None]
                   ELSE [op |-> "get_linear_sampling_ratio", kind |-> "value", i |-> 0,
                         ret |-> Output_get_linear_sampling_ratio(input)]
    /\ UNCHANGED <<input, output, amplitudes0, src_vars, ph_vars>>

GetFullPeriodEdgeResolution ==
    /\ output.state = "ok"
    /\ out_last' = IF output.input_object = None
                   THEN [op |-> "get_full_period_edge_resolution", kind |-> "AttributeError",
                         i |-> 0, ret |-> None]
                   ELSE [op |-> "get_full_period_edge_resolution", kind |-> "value", i |-> 0,
                         ret |-> Some(<<"R">>)]
    /\ UNCHANGED <<input, output, amplitudes0, src_vars, ph_vars>>

PhotonIdle ==
    /\ ph_state = "none"
    /\ ph_kwargs = [wavelength |-> None, energy |-> None, energy_eV |-> None]
    /\ photon = NoPhoton
    /\ ph_last = [op |-> "none", kind |-> "none", ret |-> None]

PropIdle ==
    /\ input = NoInput
    /\ output = NoOutput
    /\ amplitudes0 = <<>>
    /\ out_last = [op |-> "none", kind |-> "none", i |-> 0, ret |-> None]

SourceIdle ==
    /\ src_state = "none"
    /\ kwargs = NoKwArgs
    /\ source = NoSource
    /\ pc = "idle"
    /\ nretry = 0
    /\ nwarn = 0
    /\ nerr = 0
    /\ lastp = None
    /\ last = [op |-> "none", kind |-> "none", val |-> <<>>]

Init == SourceIdle /\ PhotonIdle /\ PropIdle

Next == SourceInit \/ GetNext \/ Retry \/ GetIntensity

Spec == Init /\ [][Next]_vars

NextPhoton ==
    PhotonInit \/ PhotonGetEnergy \/ PhotonSetEnergy \/ PhotonGetWavelength
    \/ PhotonSetWavelength

SpecPhoton == Init /\ [][NextPhoton]_vars

NextPropagator ==
    InputInit \/ OutputInit \/ OutputInitIllegal \/ GetIntensityPattern
    \/ GetRealSpaceImage \/ GetLinearSamplingRatio \/ GetFullPeriodEdgeResolution

SpecPropagator == Init /\ [][NextPropagator]_vars

\* ================================================================ claims
SourceMode == Val(source._pulse_energy_variation).mode
Returned == last.op = "get_next" /\ pc = "idle"

\* C1: constructing a Source with exactly {wavelength, focus_diameter,
\* pulse_energy_mean}, or with the alias pulse_energy in place of
\* pulse_energy_mean, succeeds and sets pulse_energy_mean to the value given.
C1_MeanKeywordAccepted ==
    /\ (src_state # "none" /\ kwargs.wavelength # Some(0)
        /\ Keys(kwargs) = {"wavelength", "focus_diameter", "pulse_energy_mean"})
       => (src_state = "ok" /\ source.pulse_energy_mean = kwargs.pulse_energy_mean)
    /\ (src_state # "none" /\ kwargs.wavelength # Some(0)
        /\ Keys(kwargs) = {"wavelength", "focus_diameter", "pulse_energy"})
       => (src_state = "ok" /\ source.pulse_energy_mean = kwargs.pulse_energy)

\* the keyword sets C2 speaks of: a required keyword is missing (the mean
\* under neither spelling), or a keyword is in neither list
LacksRequired(K) ==
    \/ "wavelength" \notin K
    \/ "focus_diameter" \notin K
    \/ ("pulse_energy" \notin K /\ "pulse_energy_mean" \notin K)
HasUnlisted(K) ==
    K \ {"wavelength", "focus_diameter", "pulse_energy", "pulse_energy_mean",
         "pulse_energy_variation", "pulse_energy_spread",
         "pulse_energy_variation_n", "profile_model"} # {}

\* C2: a Source constructed with a keyword set that lacks a required
\* keyword or holds an unlisted one ends in exit(1) with no field
\* initialised, and a Source that was constructed has every field set.
C2_BadKeywordsExitEarly ==
    /\ (src_state # "none" /\ (LacksRequired(Keys(kwargs)) \/ HasUnlisted(Keys(kwargs))))
       => (src_state = "exit" /\ source = NoSource)
    /\ src_state = "ok"
       => (/\ source.photon # None /\ source.focus_diameter # None
           /\ source.pulse_energy_mean # None
           /\ source._pulse_energy_variation # None /\ source._profile_model # None)

\* C2's case: both spellings of the mean omitted, the rest supplied
C2_Witness ==
    /\ src_state = "exit"
    /\ {"wavelength", "focus_diameter"} \subseteq Keys(kwargs)
    /\ kwargs.pulse_energy = None /\ kwargs.pulse_energy_mean = None
    /\ ~HasUnlisted(Keys(kwargs))
    /\ source = NoSource

\* C3: without variation and with a positive mean, every get_next returns
\* pulse_energy equal to pulse_energy_mean (and has stored it).
C3_NoVariationReturnsMean ==
    (src_state = "ok" /\ Returned /\ SourceMode = None /\ Val(source.pulse_energy_mean) > 0)
    => (/\ last.kind = "value"
        /\ last.val[1] = Val(source.pulse_energy_mean)
        /\ source.pulse_energy = source.pulse_energy_mean)

C3_Witness ==
    /\ src_state = "ok" /\ Returned /\ SourceMode = None
    /\ Val(source.pulse_energy_mean) > 0
    /\ last.kind = "value" /\ last.val[1] = Val(source.pulse_energy_mean)

\* C4: in a non-random mode, a get_next whose sampled value is <= 0 does not
\* return a {pulse_energy, wavelength} result to the caller.
C4_NoResultOnNonPositive ==
    (src_state = "ok" /\ Returned /\ SourceMode \in NonRandomModes
     /\ lastp # None /\ Val(lastp) <= 0)
    => last.kind # "value"

\* C5: in a random mode every draw <= 0 is discarded with one warning and
\* drawn again, so a get_next that returned has stored and returned its last
\* draw, which is positive; no value <= 0 is ever stored in pulse_energy.
C5_RandomStoresPositive ==
    /\ source.pulse_energy # None => Val(source.pulse_energy) > 0
    /\ (src_state = "ok" /\ Returned /\ SourceMode \notin NonRandomModes)
       => (/\ last.kind = "value"
           /\ last.val[1] > 0
           /\ last.val[1] = Val(lastp)
           /\ source.pulse_energy = lastp
           /\ nwarn = nretry)
    /\ (src_state = "ok" /\ pc = "retry")
       => (Val(lastp) <= 0 /\ nwarn = nretry /\ nretry >= 1)

\* a random-mode get_next that returned after discarding draws
C5_Witness ==
    /\ src_state = "ok" /\ Returned /\ SourceMode \notin NonRandomModes
    /\ nretry >= 2 /\ nwarn = nretry
    /\ last.kind = "value" /\ last.val[1] > 0

\* C6: one get_next performs at most a fixed number of retries: the
\* recursion of _next_pulse_energy stays below the depths counted here.
C6_RetryCapped == nretry < MaxDepth

\* C10: get_next and get_intensity leave pulse_energy_mean, focus_diameter,
\* the profile model and the photon as they were; get_intensity leaves
\* pulse_energy too; get_next returns the wavelength of that photon.
C10_FrameOfShots ==
    [][(src_state = "ok" /\ src_state' = "ok")
       => (/\ source'.pulse_energy_mean = source.pulse_energy_mean
           /\ source'.focus_diameter = source.focus_diameter
           /\ source'._profile_model = source._profile_model
           /\ source'.photon = source.photon
           /\ last'.op = "get_intensity" => source'.pulse_energy = source.pulse_energy
           /\ (last'.op = "get_next" /\ last'.kind = "value")
              => last'.val[2] = Photon_get_wavelength(Val(source.photon)))]_vars

\* an intensity read after a shot, at a source whose energy was sampled
C10_Witness ==
    /\ src_state = "ok" /\ last.op = "get_intensity" /\ last.kind = "value"
    /\ SourceMode # None /\ lastp # None
    /\ source.pulse_energy # source.pulse_energy_mean

\* C9: a Photon is constructed only from exactly one of wavelength, energy,
\* energy_eV.
C9_ExactlyOneKeyword ==
    ph_state = "ok"
    => (/\ Cardinality({k \in PhotonKeys : ph_kwargs[k] # None}) = 1
        /\ photon._energy # None)

\* C7: the stored amplitudes stay what propagate() returned, whatever
\* accessors were called.
C7_AmplitudesKept ==
    (output.state = "ok" /\ output.amplitudes # None)
    => Val(output.amplitudes) = amplitudes0

\* C8: an Input that was constructed holds the sample variant of its
\* sample_type; none without a sample reaches Output.
C8_InputHasSample ==
    /\ input.state = "ok"
       => (/\ input.sample # None
           /\ input.sample_type = "uniform_sphere" => input.sample = Some("SampleSphere")
           /\ input.sample_type = "uniform_spheroid" => input.sample = Some("SampleSpheroid")
           /\ input.sample_type = "map3d" => input.sample = Some("SampleMap"))
    /\ output.input_object # None => input.sample # None

====
